---- MODULE Spec2Model ----
(***************************************************************************)
(* A model of WindowHandler (src/app/window-handler.ts): the registry of   *)
(* native windows of the desktop shell, the host's window events and the   *)
(* ipcMain message bus the registry subscribes to.                         *)
(*                                                                         *)
(* Every handler of the source is an operator from a state record to a     *)
(* state record, so that a handler can call another one (close() runs the  *)
(* 'close' listeners, ipcMain.emit runs every listener in turn).  An       *)
(* action of the model applies one handler to the current state.           *)
(***************************************************************************)
EXTENDS Integers, Sequences, FiniteSets, TLC

\* Bounds of the model.
MaxPickers == 2
MaxIndicators == 2
MaxAuth == 2
MaxLoads == 2
MaxDialogs == 1
MaxId == 2
MaxStream == 2

\* Window handles, surfaces and keys are all <<tag, number>> pairs.
Null == <<"null", 0>>
Main == <<"main", 1>>
Loading == <<"loading", 1>>
Popout == <<"popout", 1>>
Pickers == {<<"picker", i>> : i \in 1..MaxPickers}
Indicators == {<<"indicator", i>> : i \in 1..MaxIndicators}
AuthWins == {<<"auth", i>> : i \in 1..MaxAuth}
WinIds == {Main, Loading} \cup Pickers \cup Indicators \cup AuthWins
\* The web contents a share can be requested from: the main window's, or a
\* pop-out's (a child window the registry does not own).
Surfaces == {Main, Popout}
Ids == 1..MaxId
StreamIds == 1..MaxStream

\* Keys of the windows mapping: getGuid() results, stream ids, and the
\* property key a window object is coerced to when it is used as a key.
MainKey == <<"guid", 0>>
PickerKey(p) == <<"guid", p[2]>>
StreamKey(sid) == <<"stream", sid>>
ObjKey == <<"[object Object]", 0>>
Keys == {MainKey} \cup {PickerKey(p) : p \in Pickers}
          \cup {StreamKey(sid) : sid \in StreamIds}
AllKeys == Keys \cup {ObjKey}

VARIABLES
    windows,                        \* this.windows: key -> handle (Null: no entry)
    mainWindow,                     \* this.mainWindow
    loadingWindow,                  \* this.loadingWindow
    screenPickerWindow,             \* this.screenPickerWindow
    screenSharingIndicatorWindow,   \* this.screenSharingIndicatorWindow
    basicAuthWindow,                \* this.basicAuthWindow
    willQuitApp,                    \* this.willQuitApp
    isOnline,                       \* this.isOnline
    minimizeOnClose,                \* this.config.minimizeOnClose
    isMac,                          \* env.isMac
    live,                           \* host: each window's lifecycle state
    loadFired,                      \* windows whose once('did-finish-load') has run
    inst,                           \* what each window's closures captured
    popoutAlive,                    \* host: the pop-out's web contents is alive
    selListeners,                   \* ipcMain 'screen-source-selected' listeners
    stopListeners,                  \* ipcMain 'stop-screen-sharing' listeners
    closedListeners,                \* ipcMain 'basic-auth-closed' listeners
    loginListeners,                 \* ipcMain 'basic-auth-login' listeners
    stopSent,                       \* indicators whose page has sent 'stop-screen-sharing'
    loads,                          \* runs of the main did-finish-load handler
    dialogs,                        \* open connectivity dialogs (retry pending)
    submitted,                      \* calls of callback(username, password) per dialog
    cancelled,                      \* calls of clearSettings() per dialog
    argv,                           \* process.argv: the command-line arguments
    globalConfigUrl,                \* this.globalConfig.url
    url,                            \* this.url (<<>>: not set)
    out                             \* the calls the last step made on the host

vars == <<windows, mainWindow, loadingWindow, screenPickerWindow,
          screenSharingIndicatorWindow, basicAuthWindow, willQuitApp, isOnline,
          minimizeOnClose, isMac, live, loadFired, inst, popoutAlive,
          selListeners, stopListeners, closedListeners, loginListeners, stopSent,
          loads, dialogs, submitted, cancelled, argv, globalConfigUrl, url, out>>

NoInst == [req |-> Null, id |-> 0, key |-> Null, prev |-> Null]
NoLoad == [pc |-> "none", offline |-> FALSE, dialog |-> FALSE]

\* The current state as a record; out starts empty for the step, and
\* threw / prevented are the step's own flags (an exception in flight,
\* event.preventDefault() called).
St ==
    [windows |-> windows, mainWindow |-> mainWindow, loadingWindow |-> loadingWindow,
     screenPickerWindow |-> screenPickerWindow,
     screenSharingIndicatorWindow |-> screenSharingIndicatorWindow,
     basicAuthWindow |-> basicAuthWindow, willQuitApp |-> willQuitApp,
     isOnline |-> isOnline, minimizeOnClose |-> minimizeOnClose, isMac |-> isMac,
     live |-> live, loadFired |-> loadFired, inst |-> inst,
     popoutAlive |-> popoutAlive, selListeners |-> selListeners,
     stopListeners |-> stopListeners, closedListeners |-> closedListeners,
     loginListeners |-> loginListeners, stopSent |-> stopSent, loads |-> loads, dialogs |-> dialogs,
     submitted |-> submitted, cancelled |-> cancelled,
     argv |-> argv, globalConfigUrl |-> globalConfigUrl, url |-> url,
     out |-> <<>>, threw |-> FALSE, prevented |-> FALSE]

Commit(s) ==
    /\ windows' = s.windows
    /\ mainWindow' = s.mainWindow
    /\ loadingWindow' = s.loadingWindow
    /\ screenPickerWindow' = s.screenPickerWindow
    /\ screenSharingIndicatorWindow' = s.screenSharingIndicatorWindow
    /\ basicAuthWindow' = s.basicAuthWindow
    /\ willQuitApp' = s.willQuitApp
    /\ isOnline' = s.isOnline
    /\ minimizeOnClose' = s.minimizeOnClose
    /\ isMac' = s.isMac
    /\ live' = s.live
    /\ loadFired' = s.loadFired
    /\ inst' = s.inst
    /\ popoutAlive' = s.popoutAlive
    /\ selListeners' = s.selListeners
    /\ stopListeners' = s.stopListeners
    /\ closedListeners' = s.closedListeners
    /\ loginListeners' = s.loginListeners
    /\ stopSent' = s.stopSent
    /\ loads' = s.loads
    /\ dialogs' = s.dialogs
    /\ submitted' = s.submitted
    /\ cancelled' = s.cancelled
    /\ argv' = s.argv
    /\ globalConfigUrl' = s.globalConfigUrl
    /\ url' = s.url
    /\ out' = s.out

\* Everything the constructor sets; the command line and the configured
\* address are the process's inputs.
InitBase ==
    /\ windows = [k \in AllKeys |-> Null]
    /\ mainWindow = Null
    /\ loadingWindow = Null
    /\ screenPickerWindow = Null
    /\ screenSharingIndicatorWindow = Null
    /\ basicAuthWindow = Null
    /\ willQuitApp = FALSE
    /\ isOnline = TRUE
    /\ minimizeOnClose \in BOOLEAN
    /\ isMac \in BOOLEAN
    /\ live = [w \in WinIds |-> "none"]
    /\ loadFired = {}
    /\ inst = [w \in WinIds |-> NoInst]
    /\ popoutAlive = TRUE
    /\ selListeners = <<>>
    /\ stopListeners = <<>>
    /\ closedListeners = <<>>
    /\ loginListeners = <<>>
    /\ stopSent = {}
    /\ loads = [l \in 1..MaxLoads |-> NoLoad]
    /\ dialogs = 0
    /\ submitted = [a \in AuthWins |-> 0]
    /\ cancelled = [a \in AuthWins |-> 0]
    /\ url = <<>>
    /\ out = <<>>

\* Started with no --url argument and the address https://example.com/app
\* configured.
Init ==
    /\ InitBase
    /\ argv = <<>>
    /\ globalConfigUrl = <<"https:", "/", "/", "example.com", "/", "app">>

----------------------------------------------------------------------------
\* Host and helpers.

\* One call made on the host (or one event the host delivered): op on `to`,
\* with request id `id`, made by the closure of window `src`.
Eff(op, to, id, src) == [op |-> op, to |-> to, id |-> id, src |-> src]
Do(s, op, to, id, src) == [s EXCEPT !.out = Append(@, Eff(op, to, id, src))]

\* A method called on null, or on a window or web contents that is
\* destroyed, throws: the handler stops there.
Throw(s, to, src) == [Do(s, "throw", to, 0, src) EXCEPT !.threw = TRUE]

\* window-utils.windowExists: the handle is a window and is not destroyed.
windowExists(s, w) == w # Null /\ s.live[w] \in {"open", "closing"}

\* Whether a requesting surface's web contents can still be sent to.
surfaceAlive(s, r) ==
    IF r = Main THEN s.live[Main] \in {"open", "closing"} ELSE s.popoutAlive

\* Array.filter-like removal of a listener.
Remove(seq, x) == SelectSeq(seq, LAMBDA y : y # x)

\* webContents.send(channel, ...) on a surface.
sendTo(s, r, op, id, src) ==
    IF r # Null /\ surfaceAlive(s, r) THEN Do(s, op, r, id, src) ELSE Throw(s, r, src)

\* The key a value is coerced to when it is used as a property key of
\* this.windows: a string stays itself, a window object becomes ObjKey.
ToKey(v) == IF v \in Keys THEN v ELSE ObjKey

addWindow(s, key, w) == [s EXCEPT !.windows[key] = w]

removeWindow(s, key) == [s EXCEPT !.windows[ToKey(key)] = Null]

\* (a variant of hasWindow: any entry under the key counts)
hasWindow_keyOnly(s, key, w) == s.windows[key] # Null

hasWindow(s, key, w) == s.windows[key] # Null /\ w = s.windows[key]

\* destroyAllWindow: for each own key, removeWindow(this.windows[key]).
RECURSIVE destroyLoop(_, _)
destroyLoop(s, ks) ==
    IF ks = {} THEN s
    ELSE LET key == CHOOSE k \in ks : TRUE
             s1 == IF s.windows[key] # Null
                   THEN removeWindow(s, s.windows[key])
                   ELSE s
         IN destroyLoop(s1, ks \ {key})

destroyAllWindow(s) ==
    LET s0 == Do(s, "destroyAllWindow", Null, 0, Null)
        s1 == destroyLoop(s0, {k \in AllKeys : s0.windows[k] # Null})
    IN [s1 EXCEPT !.mainWindow = Null]

----------------------------------------------------------------------------
\* Window events: 'close' (before the window closes, may be prevented) and
\* 'closed' (after it has closed).

\* Mutant of the main close handler: minimizes without suppressing the close.
mainCloseHandler_noPrevent(s) ==
    IF s.mainWindow = Null \/ ~windowExists(s, s.mainWindow) THEN s
    ELSE IF s.willQuitApp THEN destroyAllWindow(s)
    ELSE IF s.minimizeOnClose
         THEN Do(s, IF s.isMac THEN "hide" ELSE "minimize", s.mainWindow, 0, Main)
         ELSE Do(s, "app.quit", Null, 0, Main)

\* Mutant of the main close handler: minimizeOnClose is looked at before
\* willQuitApp.
mainCloseHandler_minimizeFirst(s) ==
    IF s.mainWindow = Null \/ ~windowExists(s, s.mainWindow) THEN s
    ELSE IF s.minimizeOnClose
         THEN LET s1 == [Do(s, "preventDefault", Main, 0, Main) EXCEPT !.prevented = TRUE]
              IN Do(s1, IF s1.isMac THEN "hide" ELSE "minimize", s1.mainWindow, 0, Main)
    ELSE IF s.willQuitApp THEN destroyAllWindow(s)
    ELSE Do(s, "app.quit", Null, 0, Main)

\* createApplication: this.mainWindow.on('close', ...)
mainCloseHandler(s) ==
    IF s.mainWindow = Null \/ ~windowExists(s, s.mainWindow) THEN s
    ELSE IF s.willQuitApp THEN destroyAllWindow(s)
    ELSE IF s.minimizeOnClose
         THEN LET s1 == [Do(s, "preventDefault", Main, 0, Main) EXCEPT !.prevented = TRUE]
              IN Do(s1, IF s1.isMac THEN "hide" ELSE "minimize", s1.mainWindow, 0, Main)
         ELSE Do(s, "app.quit", Null, 0, Main)

\* Mutant of the indicator close handler: removes the entry of the indicator
\* created last (this.screenSharingIndicatorWindow) instead of its own.
indicatorCloseHandler_last(s, w) ==
    LET cur == s.screenSharingIndicatorWindow
        s1 == removeWindow(s, s.inst[cur].key)
    IN [s1 EXCEPT !.stopListeners = Remove(@, w)]

\* createScreenSharingIndicatorWindow: once('close', ...)
indicatorCloseHandler(s, w) ==
    LET s1 == removeWindow(s, s.inst[w].key)
    IN [s1 EXCEPT !.stopListeners = Remove(@, w)]

\* createBasicAuthWindow: on('close', ...)
\* (a variant of the close handler: only 'basic-auth-closed' is deregistered)
basicAuthCloseHandler_closedOnly(s, a) ==
    [s EXCEPT !.closedListeners = Remove(@, a)]

basicAuthCloseHandler(s, a) ==
    [s EXCEPT !.closedListeners = Remove(@, a), !.loginListeners = Remove(@, a)]

\* createScreenPickerWindow: once('closed', ...)
pickerClosedHandler(s, p) ==
    LET s1 == removeWindow(s, s.inst[p].key)
    IN [s1 EXCEPT !.screenPickerWindow = Null]

\* showLoadingScreen: once('closed', ...)
loadingClosedHandler(s) == [s EXCEPT !.loadingWindow = Null]

\* The 'close' listeners of window w.  A once listener has run when the
\* window is already closing.
emitClose(s, w) ==
    IF w = Main THEN mainCloseHandler(s)
    ELSE IF w \in Indicators
         THEN IF s.live[w] = "open" THEN indicatorCloseHandler(s, w) ELSE s
    ELSE IF w \in AuthWins THEN basicAuthCloseHandler(s, w)
    ELSE s

\* The host has closed window w: its 'closed' listeners run and the handle
\* is destroyed.
emitClosed(s, w) ==
    LET s0 == Do(s, "on:closed", w, 0, w)
        s1 == IF w \in Pickers THEN pickerClosedHandler(s0, w)
              ELSE IF w = Loading THEN loadingClosedHandler(s0)
              ELSE s0
    IN [s1 EXCEPT !.live[w] = "destroyed"]

\* BrowserWindow.close(), and the user's close button: the 'close' event is
\* emitted; unless a listener prevents it the window starts closing.  The
\* host delivers 'closed' either within the call (sync) or later.
close(s, w, sync) ==
    IF ~windowExists(s, w) THEN Throw(s, w, w)
    ELSE LET s0 == [Do(s, "on:close", w, 0, w) EXCEPT !.prevented = FALSE]
             s1 == emitClose(s0, w)
         IN IF s1.prevented THEN [s1 EXCEPT !.prevented = FALSE]
            ELSE LET s2 == [s1 EXCEPT !.live[w] = "closing"]
                 IN IF sync THEN emitClosed(s2, w) ELSE s2

\* BrowserWindow.destroy(): no 'close' event, 'closed' is emitted.
destroy(s, w) ==
    IF ~windowExists(s, w) THEN Throw(s, w, w) ELSE emitClosed(s, w)

\* The user (or the quitting application) closes an open window.
HostClose(w) ==
    /\ live[w] = "open" \/ (w = Main /\ live[w] = "closing")
    /\ \E sync \in BOOLEAN : Commit(close(St, w, sync))

\* The host reports a closing window closed.
HostClosed(w) ==
    /\ live[w] = "closing"
    /\ Commit(emitClosed(St, w))

\* The pop-out the registry does not own goes away.
PopoutDestroyed ==
    /\ popoutAlive
    /\ Commit([St EXCEPT !.popoutAlive = FALSE])

\* Whoever owns the registry requests the quit (the before-quit hook sets
\* the public field).
BeforeQuit ==
    /\ ~willQuitApp
    /\ Commit([St EXCEPT !.willQuitApp = TRUE])

\* The network monitor sets the public field isOnline.
SetOnline(b) ==
    /\ isOnline # b
    /\ Commit([St EXCEPT !.isOnline = b])

----------------------------------------------------------------------------
\* The main window (createApplication) and the loading screen.

\* dialog-handler.showNetworkConnectivityError(window, url, retry): a
\* dialog whose retry button calls retry.
showNetworkConnectivityError(s, w) ==
    [Do(s, "dialog", w, 0, Main) EXCEPT !.dialogs = @ + 1]

\* Addresses are strings, modelled as sequences of lexemes: a scheme with
\* its colon ("http:", "https:"), the character "/", a host name, a path
\* segment.  The flag '--url=' is spelled character by character.
UrlFlag == <<"-", "-", "u", "r", "l", "=">>
Schemes == {"http:", "https:"}

\* String.prototype.startsWith and String.prototype.substr(from), with
\* from counted from 0.
startsWith(str, prefix) ==
    Len(str) >= Len(prefix) /\ SubSeq(str, 1, Len(prefix)) = prefix
substr(str, from) == SubSeq(str, from + 1, Len(str))

\* utils.getCommandLineArgs(argv, argName, false): the first argument that
\* starts with argName, or null (the empty string here: both are falsy).
getCommandLineArgs(args, argName) ==
    LET found == SelectSeq(args, LAMBDA a : startsWith(a, argName))
    IN IF found = <<>> THEN <<>> ELSE Head(found)

\* url.parse(address) of Node: a scheme is recognised at the start; a host
\* is read only after the scheme's "//"; a slashed scheme with a host and no
\* path gets the path "/"; with no scheme the whole string is the path.
\* protocol "" stands for null, host <<>> for no host.
parse(address) ==
    IF address # <<>> /\ Head(address) \in Schemes
    THEN LET rest == Tail(address)
             slashes == Len(rest) >= 2 /\ rest[1] = "/" /\ rest[2] = "/"
             after == IF slashes THEN SubSeq(rest, 3, Len(rest)) ELSE rest
             hasHost == slashes /\ after # <<>> /\ after[1] # "/"
             pathname == IF hasHost THEN Tail(after) ELSE after
         IN [protocol |-> Head(address),
             slashes |-> slashes,
             host |-> IF hasHost THEN <<after[1]>> ELSE <<>>,
             pathname |-> IF hasHost /\ pathname = <<>> THEN <<"/">> ELSE pathname]
    ELSE [protocol |-> "", slashes |-> FALSE, host |-> <<>>, pathname |-> address]

\* url.format(urlObject) of Node: "//" goes in front of the host when
\* slashes is set (or the scheme is a slashed one and there is a host), and
\* then a path that does not start with "/" gets one.
format(u) ==
    LET slashed == u.slashes \/ u.host # <<>>
        host == IF slashed THEN <<"/", "/">> \o u.host ELSE u.host
        pathname == IF slashed /\ u.pathname # <<>> /\ Head(u.pathname) # "/"
                    THEN <<"/">> \o u.pathname
                    ELSE u.pathname
    IN (IF u.protocol = "" THEN <<>> ELSE <<u.protocol>>) \o host \o pathname

getValidUrl(configURL) ==
    LET parsedUrl == parse(configURL)
    IN IF parsedUrl.protocol = "" \/ parsedUrl.protocol # "https"
       THEN format([parsedUrl EXCEPT !.protocol = "https:", !.slashes = TRUE])
       ELSE format(parsedUrl)

\* createApplication; this.url is what loadURL is given.
createApplication(s) ==
    LET s1 == [s EXCEPT !.mainWindow = Main,
                        !.live[Main] = "open",
                        !.inst[Main] = [NoInst EXCEPT !.key = MainKey]]
        urlFromCmd == getCommandLineArgs(s1.argv, UrlFlag)
        s2 == [s1 EXCEPT !.url = IF urlFromCmd # <<>> /\ substr(urlFromCmd, 6) # <<>>
                                  THEN substr(urlFromCmd, 6)
                                  ELSE getValidUrl(s1.globalConfigUrl)]
        s3 == Do(s2, "loadURL", Main, 0, Main)
    IN addWindow(s3, MainKey, s3.mainWindow)

\* Mutant of the did-finish-load handler: the connectivity test is inverted.
mainDidFinishLoad_inverted(s, l) ==
    LET s1 == IF s.isOnline /\ s.mainWindow # Null
              THEN showNetworkConnectivityError(s, s.mainWindow)
              ELSE s
        s2 == [s1 EXCEPT !.loads[l].offline = ~s.isOnline,
                         !.loads[l].dialog = (s1.dialogs > s.dialogs)]
    IN IF s2.mainWindow = Null \/ ~windowExists(s2, s2.mainWindow)
       THEN [s2 EXCEPT !.loads[l].pc = "returned"]
       ELSE [s2 EXCEPT !.loads[l].pc = "awaiting"]

\* The did-finish-load handler of the main window, to its await.  (this.url
\* = webContents.getURL() keeps this.url: the page is the one loadURL loaded.)
mainDidFinishLoad(s, l) ==
    LET s1 == IF ~s.isOnline /\ s.mainWindow # Null
              THEN showNetworkConnectivityError(s, s.mainWindow)
              ELSE s
        s2 == [s1 EXCEPT !.loads[l].offline = ~s.isOnline,
                         !.loads[l].dialog = (s1.dialogs > s.dialogs)]
    IN IF s2.mainWindow = Null \/ ~windowExists(s2, s2.mainWindow)
       THEN [s2 EXCEPT !.loads[l].pc = "returned"]
       ELSE [s2 EXCEPT !.loads[l].pc = "awaiting"]

\* (a variant of the handler's end: the loading window is left alone)
mainDidFinishLoadResume_noDestroy(s, l) ==
    IF s.mainWindow = Null \/ ~windowExists(s, s.mainWindow)
    THEN [Throw(s, s.mainWindow, Main) EXCEPT !.loads[l].pc = "threw"]
    ELSE LET s1 == Do(s, "send:page-load", s.mainWindow, 0, Main)
         IN [Do(s1, "show", s1.mainWindow, 0, Main) EXCEPT !.loads[l].pc = "shown"]

\* The same handler after await injectStyles(...).
mainDidFinishLoadResume(s, l) ==
    IF s.mainWindow = Null \/ ~windowExists(s, s.mainWindow)
    THEN [Throw(s, s.mainWindow, Main) EXCEPT !.loads[l].pc = "threw"]
    ELSE LET s1 == Do(s, "send:page-load", s.mainWindow, 0, Main)
             s2 == IF s1.loadingWindow # Null
                   THEN [destroy(s1, s1.loadingWindow) EXCEPT !.loadingWindow = Null]
                   ELSE s1
         IN IF s2.threw THEN [s2 EXCEPT !.loads[l].pc = "threw"]
            ELSE [Do(s2, "show", s2.mainWindow, 0, Main) EXCEPT !.loads[l].pc = "shown"]

\* The retry closure of the did-finish-load handler.
retry(s) ==
    IF s.mainWindow = Null THEN s
    ELSE LET s1 == IF ~s.isOnline
                   THEN showNetworkConnectivityError(s, s.mainWindow)
                   ELSE s
         IN IF windowExists(s1, s1.mainWindow)
            THEN Do(s1, "reload", s1.mainWindow, 0, Main)
            ELSE Throw(s1, s1.mainWindow, Main)

showLoadingScreen(s) ==
    [s EXCEPT !.loadingWindow = Loading, !.live[Loading] = "open"]

\* showLoadingScreen: once('did-finish-load', ...)
loadingDidFinishLoad(s) ==
    LET s1 == [s EXCEPT !.loadFired = @ \cup {Loading}]
    IN IF s1.loadingWindow = Null \/ ~windowExists(s1, s1.loadingWindow) THEN s1
       ELSE Do(s1, "send:data", s1.loadingWindow, 0, Loading)

FreeLoad == {l \in 1..MaxLoads : loads[l].pc = "none" /\ \A k \in 1..(l-1) : loads[k].pc # "none"}

CreateApplication ==
    /\ live[Main] = "none"
    /\ Commit(createApplication(St))

MainDidFinishLoad ==
    /\ live[Main] \in {"open", "closing"}
    /\ isOnline \/ mainWindow = Null \/ dialogs < MaxDialogs
    /\ \E l \in FreeLoad : Commit(mainDidFinishLoad(St, l))

MainDidFinishLoadResume ==
    \E l \in 1..MaxLoads :
        /\ loads[l].pc = "awaiting"
        /\ Commit(mainDidFinishLoadResume(St, l))

\* The user presses the dialog's retry button.
Retry ==
    /\ dialogs > 0
    /\ Commit(retry([St EXCEPT !.dialogs = @ - 1]))

ShowLoadingScreen ==
    /\ live[Loading] = "none"
    /\ Commit(showLoadingScreen(St))

LoadingDidFinishLoad ==
    /\ live[Loading] \in {"open", "closing"}
    /\ Loading \notin loadFired
    /\ Commit(loadingDidFinishLoad(St))

MainWins == {Main, Loading}

NextMain ==
    \/ CreateApplication
    \/ MainDidFinishLoad
    \/ MainDidFinishLoadResume
    \/ Retry
    \/ ShowLoadingScreen
    \/ LoadingDidFinishLoad
    \/ BeforeQuit
    \/ \E b \in BOOLEAN : SetOnline(b)
    \/ \E w \in MainWins : HostClose(w)
    \/ \E w \in MainWins : HostClosed(w)

SpecMain == Init /\ [][NextMain]_vars

----------------------------------------------------------------------------
\* The screen picker.

\* The next window of a pool that was never created (handles are not reused).
Fresh(pool) == {w \in pool : live[w] = "none" /\ \A v \in pool : v[2] < w[2] => live[v] # "none"}

createScreenPickerWindow(s, p, req, id, sync) ==
    LET old == s.screenPickerWindow
        s1 == IF old # Null /\ windowExists(s, old) THEN close(s, old, sync) ELSE s
        s2 == [s1 EXCEPT !.screenPickerWindow = p,
                         !.live[p] = "open",
                         !.inst[p] = [req |-> req, id |-> id, key |-> PickerKey(p),
                                      prev |-> IF old # Null /\ windowExists(s, old) THEN old ELSE Null]]
    IN [s2 EXCEPT !.selListeners = Append(@, p)]

\* createScreenPickerWindow: webContents.once('did-finish-load', ...) of picker p
pickerDidFinishLoad(s, p) ==
    LET s1 == [s EXCEPT !.loadFired = @ \cup {p}]
    IN IF s1.screenPickerWindow = Null \/ ~windowExists(s1, s1.screenPickerWindow) THEN s1
       ELSE addWindow(Do(s1, "send:screen-picker-data", s1.screenPickerWindow, s1.inst[p].id, p),
                      s1.inst[p].key, s1.screenPickerWindow)

\* createScreenPickerWindow: the 'screen-source-selected' listener of picker p
onSourceSelected(s, p, sync) ==
    LET s1 == sendTo(s, s.inst[p].req, "send:start-share", s.inst[p].id, p)
    IN IF s1.threw THEN s1
       ELSE IF s1.screenPickerWindow # Null /\ windowExists(s1, s1.screenPickerWindow)
            THEN close(s1, s1.screenPickerWindow, sync)
            ELSE s1

\* ipcMain.emit('screen-source-selected'): the listeners registered at the
\* emit, in order; a once listener is removed before it runs; an exception
\* ends the emit.
RECURSIVE emitSourceSelected(_, _, _)
emitSourceSelected(s, ls, sync) ==
    IF ls = <<>> \/ s.threw THEN s
    ELSE LET p == Head(ls)
             s1 == [s EXCEPT !.selListeners = Remove(@, p)]
         IN emitSourceSelected(onSourceSelected(s1, p, sync), Tail(ls), sync)

\* (a variant of closeWindow: with no key, or a key that is not in the
\* mapping, the latest indicator window is closed)
closeWindow_fallback(s, windowType, winKey, sync) ==
    IF windowType = "screen-picker"
    THEN IF s.screenPickerWindow # Null /\ windowExists(s, s.screenPickerWindow)
         THEN close(s, s.screenPickerWindow, sync)
         ELSE s
    ELSE IF windowType = "screen-sharing-indicator"
    THEN LET browserWindow == IF winKey # Null /\ s.windows[winKey] # Null
                              THEN s.windows[winKey]
                              ELSE s.screenSharingIndicatorWindow
         IN IF browserWindow # Null /\ windowExists(s, browserWindow)
            THEN close(s, browserWindow, sync)
            ELSE s
    ELSE s

closeWindow(s, windowType, winKey, sync) ==
    IF windowType = "screen-picker"
    THEN IF s.screenPickerWindow # Null /\ windowExists(s, s.screenPickerWindow)
         THEN close(s, s.screenPickerWindow, sync)
         ELSE s
    ELSE IF windowType = "screen-sharing-indicator"
    THEN IF winKey # Null
         THEN LET browserWindow == s.windows[winKey]
              IN IF browserWindow # Null /\ windowExists(s, browserWindow)
                 THEN close(s, browserWindow, sync)
                 ELSE s
         ELSE s
    ELSE s

WindowTypes == {"screen-picker", "screen-sharing-indicator", "notification"}

\* The host's choice of when 'closed' is delivered matters only when a
\* window is closed.
SyncChoices(w) == IF windowExists(St, w) THEN BOOLEAN ELSE {FALSE}

CreateScreenPickerWindow ==
    \E p \in Fresh(Pickers), req \in Surfaces, id \in Ids :
        /\ surfaceAlive(St, req)
        /\ \E sync \in SyncChoices(screenPickerWindow) :
             Commit(createScreenPickerWindow(St, p, req, id, sync))

PickerDidFinishLoad(p) ==
    /\ live[p] \in {"open", "closing"}
    /\ p \notin loadFired
    /\ Commit(pickerDidFinishLoad(St, p))

\* A picker's page sends 'screen-source-selected'.
SourceSelected ==
    /\ \E p \in Pickers : live[p] \in {"open", "closing"}
    /\ \E sync \in BOOLEAN :
         Commit(emitSourceSelected(Do(St, "ipc:screen-source-selected", Null, 0, Null),
                                   selListeners, sync))

\* A page asks for closeWindow(windowType, winKey) (winKey Null: not given).
CloseWindow(types, keys) ==
    \E windowType \in types, winKey \in keys \cup {Null} :
        /\ windowType # "screen-picker" \/ winKey = Null
        /\ \E sync \in SyncChoices(IF windowType = "screen-picker" THEN screenPickerWindow
                                   ELSE IF windowType = "screen-sharing-indicator" /\ winKey # Null
                                        THEN windows[winKey]
                                        ELSE Null) :
             Commit(closeWindow(Do(St, "closeWindow", winKey, 0, <<windowType, 0>>),
                                windowType, winKey, sync))

NextPicker ==
    \/ CreateApplication
    \/ CreateScreenPickerWindow
    \/ \E p \in Pickers : PickerDidFinishLoad(p)
    \/ SourceSelected
    \/ CloseWindow(WindowTypes, {MainKey} \cup {PickerKey(p) : p \in Pickers})
    \/ PopoutDestroyed
    \/ \E w \in Pickers \cup {Main} : HostClose(w)
    \/ \E w \in Pickers \cup {Main} : HostClosed(w)

\* The registry's configuration fixed (it matters to the main window only).
InitFixed == Init /\ ~minimizeOnClose /\ ~isMac

SpecPicker == InitFixed /\ [][NextPicker]_vars

----------------------------------------------------------------------------
\* The screen-sharing indicator.

createScreenSharingIndicatorWindow(s, w, wc, id, streamId) ==
    LET s1 == [s EXCEPT !.screenSharingIndicatorWindow = w,
                        !.live[w] = "open",
                        !.inst[w] = [req |-> wc, id |-> id, key |-> StreamKey(streamId),
                                     prev |-> Null]]
        s2 == addWindow(s1, StreamKey(streamId), s1.screenSharingIndicatorWindow)
    IN [s2 EXCEPT !.stopListeners = Append(@, w)]

\* createScreenSharingIndicatorWindow: webContents.once('did-finish-load', ...)
indicatorDidFinishLoad(s, w) ==
    LET s1 == [s EXCEPT !.loadFired = @ \cup {w}]
        cur == s1.screenSharingIndicatorWindow
    IN IF cur = Null \/ ~windowExists(s1, cur) THEN s1
       ELSE Do(s1, "send:screen-sharing-indicator-data", cur, s1.inst[w].id, w)

\* createScreenSharingIndicatorWindow: the 'stop-screen-sharing' listener
stopScreenSharing(s, w, indicatorId) ==
    IF s.inst[w].id = indicatorId
    THEN sendTo(s, s.inst[w].req, "send:screen-sharing-stopped", s.inst[w].id, w)
    ELSE s

\* ipcMain.emit('stop-screen-sharing', event, indicatorId)
RECURSIVE emitStopScreenSharing(_, _, _)
emitStopScreenSharing(s, ls, indicatorId) ==
    IF ls = <<>> \/ s.threw THEN s
    ELSE LET w == Head(ls)
             s1 == [s EXCEPT !.stopListeners = Remove(@, w)]
         IN emitStopScreenSharing(stopScreenSharing(s1, w, indicatorId), Tail(ls), indicatorId)

CreateScreenSharingIndicatorWindow(surfaces, ids) ==
    \E w \in Fresh(Indicators), wc \in surfaces, id \in ids, streamId \in StreamIds :
        /\ surfaceAlive(St, wc)
        /\ Commit(createScreenSharingIndicatorWindow(St, w, wc, id, streamId))

IndicatorDidFinishLoad(w) ==
    /\ live[w] \in {"open", "closing"}
    /\ w \notin loadFired
    /\ Commit(indicatorDidFinishLoad(St, w))

\* The page of open indicator w sends 'stop-screen-sharing' with the request
\* id of its share (its stop button is pressed; a page sends it once).
StopScreenSharing(w) ==
    /\ live[w] = "open"
    /\ w \notin stopSent
    /\ Commit(emitStopScreenSharing(
                 Do([St EXCEPT !.stopSent = @ \cup {w}], "ipc:stop-screen-sharing", w, inst[w].id, w),
                 stopListeners, inst[w].id))

NextIndicator ==
    \/ CreateApplication
    \/ CreateScreenSharingIndicatorWindow(Surfaces, Ids)
    \/ \E w \in Indicators : IndicatorDidFinishLoad(w)
    \/ \E w \in Indicators : StopScreenSharing(w)
    \/ CloseWindow({"screen-sharing-indicator"}, {StreamKey(sid) : sid \in StreamIds})
    \/ PopoutDestroyed
    \/ \E w \in Indicators \cup {Main} : HostClose(w)
    \/ \E w \in Indicators \cup {Main} : HostClosed(w)

SpecIndicator == InitFixed /\ [][NextIndicator]_vars

\* The windows mapping under the operations that write it for the main
\* window and the indicators: creation, close, closeWindow and the quit.
NextWindows ==
    \/ CreateApplication
    \/ BeforeQuit
    \/ CreateScreenSharingIndicatorWindow({Popout}, {1})
    \/ CloseWindow(WindowTypes, {MainKey} \cup {StreamKey(sid) : sid \in StreamIds})
    \/ \E w \in Indicators \cup {Main} : HostClose(w)
    \/ \E w \in Indicators \cup {Main} : HostClosed(w)

SpecWindows == InitFixed /\ [][NextWindows]_vars

----------------------------------------------------------------------------
\* The address createApplication loads, for every command line and
\* configured address built from these parts.

Hosts == {"example.com"}
Paths == {<<>>, <<"/", "app">>}
Prefixes == {<<>>, <<"http:", "/", "/">>, <<"https:", "/", "/">>}
Addresses == {pre \o <<h>> \o p : pre \in Prefixes, h \in Hosts, p \in Paths}
Argvs == {<<>>} \cup {<<UrlFlag \o a>> : a \in Addresses \cup {<<>>}}

InitUrl ==
    /\ InitBase
    /\ ~minimizeOnClose /\ ~isMac
    /\ argv \in Argvs
    /\ globalConfigUrl \in Addresses

NextUrl ==
    \/ CreateApplication
    \/ HostClose(Main)
    \/ HostClosed(Main)

SpecUrl == InitUrl /\ [][NextUrl]_vars

----------------------------------------------------------------------------
\* The registry's own operations, called directly: addWindow(key, window)
\* and removeWindow(key) over a few keys and handles.

RegKeys == {MainKey} \cup {StreamKey(sid) : sid \in StreamIds}
RegHandles == {Main} \cup Indicators

AddWindow ==
    \E key \in RegKeys, w \in RegHandles :
        Commit(Do(addWindow(St, key, w), "addWindow", w, 0, key))

RemoveWindow ==
    \E key \in RegKeys :
        Commit(Do(removeWindow(St, key), "removeWindow", Null, 0, key))

NextRegistry ==
    \/ AddWindow
    \/ RemoveWindow

SpecRegistry == InitFixed /\ [][NextRegistry]_vars

----------------------------------------------------------------------------
\* The basic-auth dialog.

createBasicAuthWindow(s, a) ==
    LET s1 == [s EXCEPT !.basicAuthWindow = a, !.live[a] = "open"]
    IN [s1 EXCEPT !.closedListeners = Append(@, a), !.loginListeners = Append(@, a)]

\* createBasicAuthWindow: webContents.once('did-finish-load', ...)
basicAuthDidFinishLoad(s, a) ==
    LET s1 == [s EXCEPT !.loadFired = @ \cup {a}]
    IN IF s1.basicAuthWindow = Null \/ ~windowExists(s1, s1.basicAuthWindow) THEN s1
       ELSE Do(s1, "send:basic-auth-data", s1.basicAuthWindow, 0, a)

\* createBasicAuthWindow: closeBasicAuth(shouldClearSettings) of dialog a
closeBasicAuth(s, a, shouldClearSettings) ==
    LET s1 == IF shouldClearSettings
              THEN [Do(s, "clearSettings", a, 0, a) EXCEPT !.cancelled[a] = @ + 1]
              ELSE s
    IN IF s1.basicAuthWindow # Null /\ ~windowExists(s1, s1.basicAuthWindow)
       THEN LET s2 == close(s1, s1.basicAuthWindow, FALSE)
            IN IF s2.threw THEN s2 ELSE [s2 EXCEPT !.basicAuthWindow = Null]
       ELSE s1

\* createBasicAuthWindow: login(_event, arg) of dialog a
login(s, a) ==
    LET s1 == [Do(s, "callback", a, 0, a) EXCEPT !.submitted[a] = @ + 1]
    IN closeBasicAuth(s1, a, FALSE)

\* ipcMain.emit('basic-auth-closed', event): closeBasicAuth gets the event
\* as shouldClearSettings, which is truthy.
RECURSIVE emitBasicAuthClosed(_, _)
emitBasicAuthClosed(s, ls) ==
    IF ls = <<>> \/ s.threw THEN s
    ELSE LET a == Head(ls)
             s1 == [s EXCEPT !.closedListeners = Remove(@, a)]
         IN emitBasicAuthClosed(closeBasicAuth(s1, a, TRUE), Tail(ls))

\* ipcMain.emit('basic-auth-login', event, arg)
RECURSIVE emitBasicAuthLogin(_, _)
emitBasicAuthLogin(s, ls) ==
    IF ls = <<>> \/ s.threw THEN s
    ELSE LET a == Head(ls)
             s1 == [s EXCEPT !.loginListeners = Remove(@, a)]
         IN emitBasicAuthLogin(login(s1, a), Tail(ls))

CreateBasicAuthWindow ==
    \E a \in Fresh(AuthWins) : Commit(createBasicAuthWindow(St, a))

BasicAuthDidFinishLoad(a) ==
    /\ live[a] \in {"open", "closing"}
    /\ a \notin loadFired
    /\ Commit(basicAuthDidFinishLoad(St, a))

\* An open dialog's page sends 'basic-auth-closed'.
BasicAuthClosed ==
    /\ \E a \in AuthWins : live[a] = "open"
    /\ Commit(emitBasicAuthClosed(Do(St, "ipc:basic-auth-closed", Null, 0, Null), closedListeners))

\* An open dialog's page sends 'basic-auth-login'.
BasicAuthLogin ==
    /\ \E a \in AuthWins : live[a] = "open"
    /\ Commit(emitBasicAuthLogin(Do(St, "ipc:basic-auth-login", Null, 0, Null), loginListeners))

NextAuth ==
    \/ CreateBasicAuthWindow
    \/ \E a \in AuthWins : BasicAuthDidFinishLoad(a)
    \/ BasicAuthClosed
    \/ BasicAuthLogin
    \/ \E a \in AuthWins : HostClose(a)
    \/ \E a \in AuthWins : HostClosed(a)

SpecAuth == InitFixed /\ [][NextAuth]_vars

----------------------------------------------------------------------------
Next ==
    \/ NextMain
    \/ NextPicker
    \/ NextIndicator
    \/ NextAuth

Spec == Init /\ [][Next]_vars

----------------------------------------------------------------------------
\* Properties.

\* The last step made call op on window or surface `to`.
Did(op, to) == \E i \in 1..Len(out) : out[i].op = op /\ out[i].to = to
DidAny(op) == \E i \in 1..Len(out) : out[i].op = op
\* The last step delivered the 'close' event of the main window.
MainCloseEvent == out # <<>> /\ out[1] = Eff("on:close", Main, 0, Main)

\* C1: every basic-auth dialog has invoked at most one of its two callbacks
\* (submit = callback, cancel = clearSettings), and once the dialog is closed
\* it has invoked exactly one of them, exactly once.
C1_ExactlyOneCallback ==
    \A a \in AuthWins :
        /\ submitted[a] + cancelled[a] <= 1
        /\ live[a] = "destroyed" => submitted[a] + cancelled[a] = 1

\* C2: once a screen picker has been closed, no later delivery of
\* 'screen-source-selected' runs its listener: no step sends 'start-share<id>'
\* from the closure of a picker that was already closed before the step.
C2_NoStartShareAfterClosed ==
    [][\A p \in Pickers :
          live[p] = "destroyed" =>
              ~\E i \in 1..Len(out') : out'[i].op = "send:start-share" /\ out'[i].src = p]_vars

\* C3: when a picker q was created while picker p was open (so p was closed
\* by that call), then once the 'closed' event of p has been processed and
\* while q is open, q is the only live picker and screenPickerWindow is q.
C3_ReplacementLeavesOnePicker ==
    \A q \in Pickers :
        (/\ inst[q].prev # Null
         /\ live[q] = "open"
         /\ live[inst[q].prev] = "destroyed")
        => /\ screenPickerWindow = q
           /\ \A p \in Pickers \ {q} : live[p] \notin {"open", "closing"}

\* An indicator window whose request id no other indicator was created with.
UniqueId(w) ==
    \A v \in Indicators \ {w} : live[v] # "none" => inst[v].id # inst[w].id

\* C4: when a 'stop-screen-sharing' message is delivered, every indicator
\* window that is open, whose request id is the message's id (and no other
\* indicator's) and whose requesting surface is alive has
\* 'screen-sharing-stopped' with that id sent to its requesting surface in
\* that step.
C4_StopReachesRequester ==
    (out # <<>> /\ out[1].op = "ipc:stop-screen-sharing")
    => \A w \in Indicators :
          (/\ live[w] = "open"
           /\ inst[w].id = out[1].id
           /\ UniqueId(w)
           /\ surfaceAlive(St, inst[w].req))
          => \E i \in 1..Len(out) :
                out[i] = Eff("send:screen-sharing-stopped", inst[w].req, inst[w].id, w)

\* An indicator window whose stream id no other indicator was created with.
UniqueStream(w) ==
    \A v \in Indicators \ {w} : live[v] # "none" => inst[v].key # inst[w].key

\* C5: indicator windows created with distinct stream ids are each in the
\* windows mapping under their own stream id while open, and the close of
\* one removes its own entry only: the entry of every other open indicator
\* stays.
C5_IndicatorsCoexist ==
    \A w \in Indicators :
        (live[w] # "none" /\ UniqueStream(w))
        => /\ live[w] = "open" => windows[inst[w].key] = w
           /\ live[w] \in {"closing", "destroyed"} => windows[inst[w].key] = Null

\* C5 witness: two indicators with distinct stream ids, one closed and its
\* entry gone, the other open and still in the mapping.
C5_Witness ==
    \E w1, w2 \in Indicators :
        /\ inst[w1].key # inst[w2].key
        /\ live[w1] = "destroyed" /\ windows[inst[w1].key] = Null
        /\ live[w2] = "open" /\ windows[inst[w2].key] = w2

\* C6: no callback of the registry calls a method on a handle that is null
\* or destroyed (such a call throws).
C6_NoStaleHandleUse == ~DidAny("throw")

\* C7: after destroyAllWindow has run, the windows mapping has no entry and
\* the main-window reference is null.
C7_DestroyAllClears ==
    DidAny("destroyAllWindow")
    => /\ \A k \in AllKeys : windows[k] = Null
       /\ mainWindow = Null

\* C8: a close event on the live main window with no quit requested: with
\* minimizeOnClose the close is suppressed (the window stays open), the
\* window is minimized (hidden on mac) and app.quit() is not called; without
\* it the close is not suppressed and app.quit() is called.
C8_CloseWithoutQuit ==
    (MainCloseEvent /\ ~willQuitApp /\ mainWindow # Null)
    => IF minimizeOnClose
       THEN /\ Did("preventDefault", Main)
            /\ Did(IF isMac THEN "hide" ELSE "minimize", Main)
            /\ ~Did(IF isMac THEN "minimize" ELSE "hide", Main)
            /\ ~DidAny("app.quit")
            /\ live[Main] = "open"
       ELSE /\ ~Did("preventDefault", Main)
            /\ ~Did("hide", Main) /\ ~Did("minimize", Main)
            /\ DidAny("app.quit")
            /\ live[Main] \in {"closing", "destroyed"}

\* C8 witness: minimizeOnClose is configured, no quit is requested, and the
\* close event minimized the window and left it open.
C8_Witness ==
    /\ MainCloseEvent /\ ~willQuitApp /\ mainWindow # Null
    /\ minimizeOnClose /\ Did("minimize", Main) /\ live[Main] = "open"

\* C9: with a quit requested, a close event on the live main window is never
\* suppressed and never minimizes or hides the window: destroyAllWindow runs
\* and the window closes.
C9_CloseOnQuit ==
    [][(/\ willQuitApp
        /\ mainWindow # Null /\ windowExists(St, mainWindow)
        /\ out' # <<>> /\ out'[1] = Eff("on:close", Main, 0, Main))
       => /\ \A i \in 1..Len(out') : out'[i].op \notin {"preventDefault", "minimize", "hide"}
          /\ \E i \in 1..Len(out') : out'[i].op = "destroyAllWindow"
          /\ live'[Main] \in {"closing", "destroyed"}]_vars

\* C9 witness: minimizeOnClose is configured, the quit is requested, and the
\* close event ran destroyAllWindow and let the window close.
C9_Witness ==
    /\ MainCloseEvent /\ willQuitApp /\ minimizeOnClose
    /\ DidAny("destroyAllWindow")
    /\ live[Main] \in {"closing", "destroyed"}

\* C10: a run of the main window's load-finished handler that started
\* offline and has reached show() has shown the connectivity dialog (which
\* the handler does before its await, and show() after it).
C10_DialogBeforeShow ==
    \A l \in 1..MaxLoads :
        (loads[l].pc = "shown" /\ loads[l].offline) => loads[l].dialog

\* C10 witness: a load that started offline, showed the dialog and then the
\* window.
C10_Witness ==
    \E l \in 1..MaxLoads : loads[l].pc = "shown" /\ loads[l].offline /\ loads[l].dialog

\* C11: hasWindow(k, h) is true exactly when the handle stored under k is h:
\* right after addWindow(k, h) it is true for h and false for every other
\* handle (an older handle under k included), and right after removeWindow(k)
\* it is false for every handle.
C11_HasWindowIffStored ==
    /\ \A k \in Keys, h \in WinIds : hasWindow(St, k, h) <=> windows[k] = h
    /\ \A k \in Keys, h \in WinIds :
          out = <<Eff("addWindow", h, 0, k)>>
          => /\ hasWindow(St, k, h)
             /\ \A g \in WinIds \ {h} : ~hasWindow(St, k, g)
    /\ \A k \in Keys :
          out = <<Eff("removeWindow", Null, 0, k)>>
          => \A h \in WinIds : ~hasWindow(St, k, h)

\* C11 witness: a key was just removed and has no handle while another key
\* still holds one, which hasWindow reports for that handle only.
C11_Witness ==
    \E k1, k2 \in Keys, h \in WinIds :
        /\ k1 # k2
        /\ out = <<Eff("removeWindow", Null, 0, k1)>>
        /\ windows[k1] = Null /\ ~hasWindow(St, k1, h)
        /\ windows[k2] = h /\ hasWindow(St, k2, h)

\* The scheme an address is written with ("" when it has none), and the
\* address without its scheme, the slashes in front of the host and a final
\* slash.
schemeOf(a) == IF a # <<>> /\ Head(a) \in Schemes THEN Head(a) ELSE ""
RECURSIVE dropSlashes(_)
dropSlashes(a) == IF a # <<>> /\ Head(a) = "/" THEN dropSlashes(Tail(a)) ELSE a
hostPath(a) ==
    LET b == dropSlashes(IF schemeOf(a) = "" THEN a ELSE Tail(a))
    IN IF b # <<>> /\ b[Len(b)] = "/" THEN SubSeq(b, 1, Len(b) - 1) ELSE b
\* The address the --url argument carries (<<>> when there is none).
override == substr(getCommandLineArgs(argv, UrlFlag), 6)

\* C12: once createApplication has run, the address loaded has the host and
\* path of the --url override when there is one and of the configured
\* address otherwise; an override that has a scheme is loaded as it is; and
\* when the chosen address has no scheme the address loaded has the scheme
\* https.
C12_LoadedAddress ==
    live[Main] # "none"
    => LET chosen == IF override # <<>> THEN override ELSE globalConfigUrl
       IN /\ hostPath(url) = hostPath(chosen)
          /\ (override # <<>> /\ schemeOf(chosen) # "") => url = chosen
          /\ schemeOf(chosen) = "" => schemeOf(url) = "https:"

\* C13: the address getValidUrl makes of the configured address (loaded when
\* there is no override) is https:// followed by the host and path of the
\* configured address (a final slash after a bare host is let through).
C13_HttpsSameHostPath ==
    (live[Main] # "none" /\ override = <<>>)
    => LET expected == <<"https:", "/", "/">> \o hostPath(globalConfigUrl)
       IN url = expected \/ url = expected \o <<"/">>

\* C14: no key of the windows mapping maps to a window that has been
\* destroyed.
C14_EntriesLive ==
    \A k \in AllKeys : windows[k] # Null => live[windows[k]] # "destroyed"

\* C15: when a step delivers 'basic-auth-login' or 'basic-auth-closed' and
\* runs the submit or cancel handler of the dialog that is open and is the
\* registry's basicAuthWindow, then in that step close() is called on that
\* window and basicAuthWindow is null afterwards.
C15_HandlerClosesDialog ==
    [][(/\ out' # <<>>
        /\ out'[1].op \in {"ipc:basic-auth-login", "ipc:basic-auth-closed"}
        /\ basicAuthWindow # Null
        /\ live[basicAuthWindow] = "open"
        /\ \E i \in 1..Len(out') :
              /\ out'[i].op \in {"callback", "clearSettings"}
              /\ out'[i].src = basicAuthWindow)
       => /\ \E i \in 1..Len(out') : out'[i] = Eff("on:close", basicAuthWindow, 0, basicAuthWindow)
          /\ basicAuthWindow' = Null]_vars

\* The listener of window x is registered in the listener list ls.
Registered(ls, x) == \E i \in 1..Len(ls) : ls[i] = x

\* C16: a basic-auth dialog whose close event has been handled (it is
\* closing or destroyed) has neither of its two listeners registered, and no
\* later step runs its submit (callback) or cancel (clearSettings).
C16_DeregisteredOnClose ==
    /\ [](\A a \in AuthWins :
            live[a] \in {"closing", "destroyed"}
            => ~Registered(closedListeners, a) /\ ~Registered(loginListeners, a))
    /\ [][\A a \in AuthWins :
            live[a] \in {"closing", "destroyed"}
            => /\ submitted'[a] = submitted[a]
               /\ cancelled'[a] = cancelled[a]
               /\ ~\E i \in 1..Len(out') :
                     /\ out'[i].op \in {"callback", "clearSettings"}
                     /\ out'[i].src = a]_vars

\* C16 witness: a dialog was closed before either of its handshakes fired,
\* and a later 'basic-auth-login' ran another dialog's submit and not its.
C16_Witness ==
    \E a, b \in AuthWins :
        /\ a # b
        /\ live[a] = "destroyed" /\ submitted[a] + cancelled[a] = 0
        /\ out # <<>> /\ out[1].op = "ipc:basic-auth-login"
        /\ \E i \in 1..Len(out) : out[i] = Eff("callback", b, 0, b)

\* C17: when the load-finished handler of a screen picker runs while that
\* picker is open, the step sends 'screen-picker-data' with the request id
\* (and sources) of that picker's own creation to that picker, and
\* afterwards the picker is in the windows mapping under its own key.
C17_PickerGetsOwnData ==
    [][\A p \in Pickers :
          (live[p] = "open" /\ p \notin loadFired /\ p \in loadFired')
          => /\ \E i \in 1..Len(out') :
                   out'[i] = Eff("send:screen-picker-data", p, inst[p].id, p)
             /\ windows'[inst[p].key] = p]_vars

\* C18: every 'screen-sharing-indicator-data' message is sent to the
\* indicator window whose creation captured the ids it carries.
C18_IndicatorGetsOwnIds ==
    \A i \in 1..Len(out) :
        out[i].op = "send:screen-sharing-indicator-data" => out[i].to = out[i].src

\* C19: in a step that calls show() on the main window the loading window is
\* not live (it was never created, or is destroyed) and loadingWindow is
\* null; and whenever the loading window is destroyed, by that handler or
\* by a close of its own, loadingWindow is null.
C19_LoadingGoneWhenShown ==
    /\ Did("show", Main)
       => loadingWindow = Null /\ live[Loading] \in {"none", "destroyed"}
    /\ live[Loading] = "destroyed" => loadingWindow = Null

\* C19 witness: the step that showed the main window destroyed the loading
\* window, which was still open when the handler ran.
C19_Witness ==
    /\ Did("show", Main)
    /\ Did("on:closed", Loading)
    /\ live[Loading] = "destroyed" /\ loadingWindow = Null

\* C20: a step that calls closeWindow with a type other than 'screen-picker'
\* and 'screen-sharing-indicator', or with 'screen-sharing-indicator' and no
\* key or a key that has no entry in the windows mapping, makes no call on
\* any window and leaves the mapping, every window reference and every
\* window's lifecycle state unchanged.
C20_CloseWindowNoOp ==
    [][(/\ out' # <<>>
        /\ out'[1].op = "closeWindow"
        /\ \/ out'[1].src[1] \notin {"screen-picker", "screen-sharing-indicator"}
           \/ /\ out'[1].src[1] = "screen-sharing-indicator"
              /\ (out'[1].to = Null \/ windows[out'[1].to] = Null))
       => /\ Len(out') = 1
          /\ UNCHANGED <<windows, mainWindow, loadingWindow, screenPickerWindow,
                         screenSharingIndicatorWindow, basicAuthWindow, live>>]_vars

\* C20 witness: closeWindow('screen-sharing-indicator', k) was just called
\* with a key that has no entry, while the main window and an indicator are
\* open and in the mapping.
C20_Witness ==
    \E k \in Keys, w \in Indicators :
        /\ out = <<Eff("closeWindow", k, 0, <<"screen-sharing-indicator", 0>>)>>
        /\ windows[k] = Null
        /\ live[w] = "open" /\ windows[inst[w].key] = w
        /\ live[Main] = "open" /\ windows[MainKey] = Main

\* C21: a step that calls closeWindow('screen-sharing-indicator', key) calls
\* close() on indicator windows only, whatever the key: never on the main
\* window or a screen picker.
C21_ClosesIndicatorsOnly ==
    (/\ out # <<>>
     /\ out[1].op = "closeWindow"
     /\ out[1].src = <<"screen-sharing-indicator", 0>>)
    => \A i \in 1..Len(out) : out[i].op = "on:close" => out[i].to \in Indicators

====
